---- MODULE Spec2Model ----
(***************************************************************************)
(* Model of the Takealot price API (src/app.js): the /api/prices handler,  *)
(* getScreenshotAndExtractPrices with its three-strategy extraction        *)
(* cascade, and calculatePriceStats.                                       *)
(*                                                                         *)
(* Prices are held in cents (integers): every price the currency pattern   *)
(* can produce has at most two fractional digits.  Every awaited call to   *)
(* puppeteer, Tesseract or fs is a step that either resolves or rejects;   *)
(* what the page contains is an input chosen when the step runs.           *)
(* logToFile never throws (it catches its own fs error, app.js:36-43), so  *)
(* it is not a step.  The timestamp field of the response is left out.     *)
(***************************************************************************)
EXTENDS Integers, Sequences, FiniteSets, TLC

VARIABLES req, browser, calls, res, page, scroll

vars == <<req, browser, calls, res, page, scroll>>

(* ---------------------------------------------------------------------- *)
(* Bounds and program constants                                           *)
(* ---------------------------------------------------------------------- *)

\* longest price list a strategy yields in the model
MaxYield == 6

\* if (prices.length < 5): the fallback threshold of both cascade guards
Threshold == 5

\* productSelectors has four entries
NumSelectors == 4

\* the requests of the sequential specification
Reqs == {1}

Undefined == "undefined"

\* req.query.search: absent, empty, or a term
SearchTerms == {Undefined, "", "phone"}

\* req.query.debug: absent, 'true', or another string
DebugParams == {Undefined, "true", "1"}

\* first price (in cents) of the lists a page can yield
Bases == {1000, 250000}

\* the price lists a strategy can yield: n prices, one cent apart
Lists == {<<>>} \cup
         {[i \in 1..n |-> b + i] : n \in 1..MaxYield, b \in Bases}

CallNames == {"launch", "newPage", "goto", "content", "evaluate",
              "screenshot", "recognize", "close"}

(* ---------------------------------------------------------------------- *)
(* calculatePriceStats                                                    *)
(* ---------------------------------------------------------------------- *)

RECURSIVE Sum(_)
Sum(s) == IF s = <<>> THEN 0 ELSE Head(s) + Sum(Tail(s))

\* insert x into the ascending sequence s
RECURSIVE Insert(_, _)
Insert(x, s) ==
  IF s = <<>> THEN <<x>>
  ELSE IF x <= Head(s) THEN <<x>> \o s
  ELSE <<Head(s)>> \o Insert(x, Tail(s))

\* insert x into the descending sequence s
RECURSIVE InsertDesc(_, _)
InsertDesc(x, s) ==
  IF s = <<>> THEN <<x>>
  ELSE IF x >= Head(s) THEN <<x>> \o s
  ELSE <<Head(s)>> \o InsertDesc(x, Tail(s))

\* variant: the comparator written b - a
RECURSIVE SortDesc(_)
SortDesc(s) ==
  IF s = <<>> THEN <<>> ELSE InsertDesc(Head(s), SortDesc(Tail(s)))

\* [...prices].sort((a, b) => a - b)
RECURSIVE SortAsc(_)
SortAsc(s) == IF s = <<>> THEN <<>> ELSE Insert(Head(s), SortAsc(Tail(s)))

\* parseFloat((num/den).toFixed(2)) on cents: the nearest cent.  toFixed
\* rounds the binary double, so a quotient that is exactly halfway between
\* two cents in decimal goes up or down with the side of the halfway point
\* the double lies on (10.015 gives "10.01", 0.125 gives "0.13"): `up` is that
\* side.  Every other quotient is further from the halfway point than the
\* error of the double and goes to the nearest cent.
Round2(num, den, up) ==
  LET nearest == (2 * num + den) \div (2 * den)
      halfway == (2 * num) % (2 * den) = den
  IN IF halfway /\ ~up THEN nearest - 1 ELSE nearest

\* the sides the two rounded quotients (average, median) can lie on
Roundings == [average : BOOLEAN, median : BOOLEAN]

\* variant: the element at index mid whatever the parity of the length
MedianUpper(sortedPrices, up) == sortedPrices[Len(sortedPrices) \div 2 + 1]

\* median of the ascending sortedPrices: the middle element, or the mean of
\* the two middle elements (0-based mid - 1 and mid are mid and mid + 1 here)
Median(sortedPrices, up) ==
  LET n   == Len(sortedPrices)
      mid == n \div 2
  IN IF n % 2 = 0
     THEN Round2(sortedPrices[mid] + sortedPrices[mid + 1], 2, up)
     ELSE sortedPrices[mid + 1]

calculatePriceStats(prices, rnd) ==
  IF Len(prices) = 0
  THEN [average |-> 0, median |-> 0, min |-> 0, max |-> 0, count |-> 0]
  ELSE LET sortedPrices == SortAsc(prices)
           sum == Sum(prices)
       IN [average |-> Round2(sum, Len(prices), rnd.average),
           median  |-> Median(sortedPrices, rnd.median),
           min     |-> sortedPrices[1],
           max     |-> sortedPrices[Len(sortedPrices)],
           count   |-> Len(prices)]

\* const sortedPrices = [...prices].sort(...): the sort works on a copy, the
\* caller's array is as it was when calculatePriceStats returns
PricesAfterStats(prices) == prices

(* ---------------------------------------------------------------------- *)
(* Control structure of the handler and of getScreenshotAndExtractPrices  *)
(* ---------------------------------------------------------------------- *)

\* variant: only an absent term is rejected, the empty string goes through
FalsyAbsentOnly(s) == s = Undefined

\* if (!searchTerm)
Falsy(s) == s = Undefined \/ s = ""

\* req.query.debug === 'true'
DebugFlag(p) == p = "true"

\* variant: the guards compare with <= 5
BelowThresholdInclusive(prices) == Len(prices) <= Threshold

\* if (prices.length < 5): both cascade guards
BelowThreshold(prices) == Len(prices) < Threshold

\* variant: a candidate of the same length replaces the adopted list too
AdoptOnTie(prices, candidate) ==
  IF Len(candidate) >= Len(prices) THEN candidate ELSE prices

\* variant: the comparison of the two lengths is reversed
AdoptReversed(prices, candidate) ==
  IF Len(candidate) < Len(prices) THEN candidate ELSE prices

\* variant: a longer candidate list is appended instead of replacing
AdoptMerged(prices, candidate) ==
  IF Len(candidate) > Len(prices) THEN prices \o candidate ELSE prices

\* if (candidate.length > prices.length) prices = candidate
Adopt(prices, candidate) ==
  IF Len(candidate) > Len(prices) THEN candidate ELSE prices

\* variant: page.goto without its own try/catch
OnThrowGotoFatal(step) ==
  CASE step \in {"launch", "newPage", "close"} -> "handlerCatch"
    [] step = "consent" -> "grid"
    [] step = "grid"    -> "scroll"
    [] OTHER            -> "catch"

\* variant: the consent probe without its own try/catch
OnThrowConsentFatal(step) ==
  CASE step \in {"launch", "newPage", "close"} -> "handlerCatch"
    [] step = "goto"    -> "debugHtml"
    [] step = "grid"    -> "scroll"
    [] OTHER            -> "catch"

\* variant: the OCR block wrapped in a try/catch that logs and goes on
OnThrowOcrAbsorbed(step) ==
  CASE step \in {"launch", "newPage", "close"} -> "handlerCatch"
    [] step = "goto"    -> "debugHtml"
    [] step = "consent" -> "grid"
    [] step = "grid"    -> "scroll"
    [] step \in {"screenshot", "recognize"} -> "stats"
    [] OTHER            -> "catch"

\* Where control goes when the awaited call of `step` rejects: the inner
\* try/catch blocks absorb goto, the consent probe and each grid probe; the
\* launch and newPage precede the try block; close is in the finally block;
\* every other step is caught by the outer catch, which rethrows.
OnThrow(step) ==
  CASE step = "launch"  -> "handlerCatch"
    [] step = "newPage" -> "handlerCatch"
    [] step = "goto"    -> "debugHtml"
    [] step = "consent" -> "grid"
    [] step = "grid"    -> "scroll"
    [] step = "close"   -> "handlerCatch"
    [] OTHER            -> "catch"

Absorbed(step) == OnThrow(step) \notin {"catch", "handlerCatch"}

NoResponse == [status |-> 0]

InitReq(term, dbg) ==
  [pc |-> "start", searchTerm |-> term, debugParam |-> dbg, debug |-> FALSE,
   error |-> "none", failures |-> {}, consent |-> "unknown",
   productGridFound |-> FALSE, yielded |-> {},
   pricesFromDOM |-> <<>>, pricesFromHTML |-> <<>>, pricesFromOCR |-> <<>>,
   prices |-> <<>>, result |-> NoResponse]

\* what the page of a request showed to each strategy that read it
NoPage == [dom |-> <<>>, html |-> <<>>, ocr |-> <<>>]

\* the promise of autoScroll's page.evaluate before it is created
NoScroll == [totalHeight |-> 0, scrollHeight |-> 0, innerHeight |-> 0,
             growths |-> 0, growing |-> FALSE, resolved |-> FALSE]

\* the requests R, each with a search term of `terms` and a debug parameter
\* of `dbgs`, as the handler receives them
InitOver(R, terms, dbgs) ==
  /\ req \in [R -> {InitReq(t, d) : t \in terms, d \in dbgs}]
  /\ browser = [r \in R |-> "none"]
  /\ calls = [r \in R |-> [c \in CallNames |-> 0]]
  /\ res = [r \in R |-> NoResponse]
  /\ page = [r \in R |-> NoPage]

Init ==
  /\ InitOver(Reqs, SearchTerms, DebugParams)
  /\ scroll = NoScroll

\* variant: the browser handle kept in one module-level variable
BrowserOfShared(r) == 1

\* const browser = ...: the browser a request launches and closes is a
\* local of its own invocation of getScreenshotAndExtractPrices
BrowserOf(r) == r

Call(r, c) == calls' = [calls EXCEPT ![r][c] = @ + 1]

\* the awaited call of `step` resolves: continue at `next`
Goes(r, next) == req' = [req EXCEPT ![r].pc = next]

\* the awaited call of `step` rejects
Throws(r, step) ==
  req' = [req EXCEPT ![r].pc = OnThrow(step),
                     ![r].failures = @ \cup {step},
                     ![r].error = IF Absorbed(step) THEN @ ELSE step]

\* app.get('/api/prices'): validation, then the call of the core
Start(r) ==
  /\ req[r].pc = "start"
  /\ IF Falsy(req[r].searchTerm)
     THEN /\ res' = [res EXCEPT ![r] =
                       [status |-> 400, error |-> "Search term is required"]]
          /\ Goes(r, "done")
     ELSE /\ req' = [req EXCEPT ![r].pc = "launch",
                                ![r].debug = DebugFlag(req[r].debugParam)]
          /\ UNCHANGED res
  /\ UNCHANGED <<browser, calls>>

\* const browser = await puppeteer.launch(...)
Launch(r) ==
  /\ req[r].pc = "launch"
  /\ Call(r, "launch")
  /\ \/ /\ browser' = [browser EXCEPT ![BrowserOf(r)] = "open"]
        /\ Goes(r, "newPage")
     \/ /\ Throws(r, "launch")
        /\ UNCHANGED browser
  /\ UNCHANGED res

\* const page = await browser.newPage()
NewPage(r) ==
  /\ req[r].pc = "newPage"
  /\ Call(r, "newPage")
  /\ \/ Goes(r, "setup")
     \/ Throws(r, "newPage")
  /\ UNCHANGED <<browser, res>>

\* setDefaultNavigationTimeout, setRequestInterception, page.on, setViewport
Setup(r) ==
  /\ req[r].pc = "setup"
  /\ \/ Goes(r, "goto")
     \/ Throws(r, "setup")
  /\ UNCHANGED <<browser, calls, res>>

\* try { await page.goto(url, ...) } catch (e) { log }
Goto(r) ==
  /\ req[r].pc = "goto"
  /\ Call(r, "goto")
  /\ \/ Goes(r, "debugHtml")
     \/ Throws(r, "goto")
  /\ UNCHANGED <<browser, res>>

\* if (debug) { html = await page.content(); await fs.writeFile(...) }
DebugHtml(r) ==
  /\ req[r].pc = "debugHtml"
  /\ IF req[r].debug
     THEN /\ Call(r, "content")
          /\ \/ Goes(r, "consent")
             \/ Throws(r, "debugHtml")
     ELSE /\ Goes(r, "consent")
          /\ UNCHANGED calls
  /\ UNCHANGED <<browser, res>>

\* try { waitForSelector(cookie button); click } catch { log }
Consent(r) ==
  /\ req[r].pc = "consent"
  /\ \/ req' = [req EXCEPT ![r].pc = "grid", ![r].consent = "handled"]
     \/ req' = [req EXCEPT ![r].pc = OnThrow("consent"),
                           ![r].failures = @ \cup {"consent"},
                           ![r].consent = "absent"]
  /\ UNCHANGED <<browser, calls, res>>

\* for (const selector of productSelectors) try { waitForSelector; found =
\* true; break } catch { log }: k selectors are missed before one matches
Grid(r) ==
  /\ req[r].pc = "grid"
  /\ \E k \in 0..NumSelectors :
       req' = [req EXCEPT ![r].pc = OnThrow("grid"),
                          ![r].productGridFound = (k < NumSelectors),
                          ![r].failures =
                             IF k > 0 THEN @ \cup {"grid"} ELSE @]
  /\ UNCHANGED <<browser, calls, res>>

\* await autoScroll(page)
Scroll(r) ==
  /\ req[r].pc = "scroll"
  /\ \/ Goes(r, "wait")
     \/ Throws(r, "scroll")
  /\ UNCHANGED <<browser, calls, res>>

\* await page.waitForTimeout(3000)
Wait(r) ==
  /\ req[r].pc = "wait"
  /\ \/ Goes(r, "domScan")
     \/ Throws(r, "wait")
  /\ UNCHANGED <<browser, calls, res>>

\* pricesFromDOM = await page.evaluate(...); let prices = pricesFromDOM
DomScan(r, Yields) ==
  /\ req[r].pc = "domScan"
  /\ Call(r, "evaluate")
  /\ \/ \E l \in Yields :
          req' = [req EXCEPT ![r].pc = "htmlScan",
                             ![r].pricesFromDOM = l,
                             ![r].prices = l,
                             ![r].yielded = @ \cup {"DOM"}]
     \/ Throws(r, "domScan")
  /\ UNCHANGED <<browser, res>>

\* if (prices.length < 5) { htmlContent = await page.content(); regex scan;
\*   if (pricesFromHTML.length > prices.length) prices = pricesFromHTML }
HtmlScan(r, Yields) ==
  /\ req[r].pc = "htmlScan"
  /\ IF BelowThreshold(req[r].prices)
     THEN /\ Call(r, "content")
          /\ \/ \E l \in Yields :
                  req' = [req EXCEPT ![r].pc = "ocr",
                                     ![r].pricesFromHTML = l,
                                     ![r].prices = Adopt(@, l),
                                     ![r].yielded = @ \cup {"HTML"}]
             \/ Throws(r, "htmlScan")
     ELSE /\ Goes(r, "ocr")
          /\ UNCHANGED calls
  /\ UNCHANGED <<browser, res>>

\* if (prices.length < 5) { screenshotBuffer = await page.screenshot(...);
\*   if (debug) await fs.writeFile(...) }
Screenshot(r) ==
  /\ req[r].pc = "ocr"
  /\ IF BelowThreshold(req[r].prices)
     THEN /\ Call(r, "screenshot")
          /\ \/ Goes(r, "recognize")
             \/ Throws(r, "screenshot")
             \/ /\ req[r].debug
                /\ Throws(r, "debugScreenshot")
     ELSE /\ Goes(r, "stats")
          /\ UNCHANGED calls
  /\ UNCHANGED <<browser, res>>

\* result = await Tesseract.recognize(...); if (debug) await fs.writeFile;
\* matchAll, map, filter; if (pricesFromOCR.length > prices.length) prices =
\* pricesFromOCR
Recognize(r, Yields) ==
  /\ req[r].pc = "recognize"
  /\ Call(r, "recognize")
  /\ \/ \E l \in Yields :
          req' = [req EXCEPT ![r].pc = "stats",
                             ![r].pricesFromOCR = l,
                             ![r].prices = Adopt(@, l),
                             ![r].yielded = @ \cup {"OCR"}]
     \/ Throws(r, "recognize")
     \/ /\ req[r].debug
        /\ Throws(r, "debugOcr")
  /\ UNCHANGED <<browser, res>>

\* variant: totalPricesFound taken from the structured scan's list
ResultCountsDom(rq, prices, stats) ==
  [status |-> 200,
   searchTerm |-> rq.searchTerm,
   totalPricesFound |-> Len(rq.pricesFromDOM),
   prices |-> prices,
   stats |-> stats,
   debugId |-> IF rq.debug THEN "debugId" ELSE Undefined]

\* return { searchTerm, timestamp, results: { totalPricesFound, prices,
\* stats, debugId } } of the request record rq, sent with status 200
Result(rq, prices, stats) ==
  [status |-> 200,
   searchTerm |-> rq.searchTerm,
   totalPricesFound |-> Len(prices),
   prices |-> prices,
   stats |-> stats,
   debugId |-> IF rq.debug THEN "debugId" ELSE Undefined]

\* stats = calculatePriceStats(prices); return { searchTerm, results }
Stats(r) ==
  /\ req[r].pc = "stats"
  /\ \E rnd \in Roundings :
       LET stats  == calculatePriceStats(req[r].prices, rnd)
           prices == PricesAfterStats(req[r].prices)
       IN req' = [req EXCEPT ![r].pc = "finally",
                             ![r].prices = prices,
                             ![r].result = Result(req[r], prices, stats)]
  /\ UNCHANGED <<browser, calls, res>>

\* catch (error) { log; throw error }
Catch(r) ==
  /\ req[r].pc = "catch"
  /\ Goes(r, "finally")
  /\ UNCHANGED <<browser, calls, res>>

\* finally { log; await browser.close() }: a rejected close replaces the
\* pending return or error; whether the browser process is gone then is
\* not determined
Close(r) ==
  /\ req[r].pc = "finally"
  /\ Call(r, "close")
  /\ \/ /\ browser' = [browser EXCEPT ![BrowserOf(r)] = "closed"]
        /\ Goes(r, IF req[r].error = "none" THEN "respond" ELSE "handlerCatch")
     \/ /\ \E b \in {"open", "closed"} :
             browser' = [browser EXCEPT ![BrowserOf(r)] = b]
        /\ Throws(r, "close")
  /\ UNCHANGED res

\* res.json(priceData)
Respond(r) ==
  /\ req[r].pc = "respond"
  /\ res' = [res EXCEPT ![r] = req[r].result]
  /\ Goes(r, "done")
  /\ UNCHANGED <<browser, calls>>

\* catch (error) { log; res.status(500).json({ error, message }) }
HandlerCatch(r) ==
  /\ req[r].pc = "handlerCatch"
  /\ res' = [res EXCEPT ![r] =
               [status |-> 500, error |-> "Failed to process request",
                message |-> req[r].error]]
  /\ Goes(r, "done")
  /\ UNCHANGED <<browser, calls>>

\* one step of request r on a page whose structured scan, markup scan and
\* OCR yield a list of DomYields, HtmlYields and OcrYields
StepOf(r, DomYields, HtmlYields, OcrYields) ==
  \/ Start(r)
  \/ Launch(r)
  \/ NewPage(r)
  \/ Setup(r)
  \/ Goto(r)
  \/ DebugHtml(r)
  \/ Consent(r)
  \/ Grid(r)
  \/ Scroll(r)
  \/ Wait(r)
  \/ DomScan(r, DomYields)
  \/ HtmlScan(r, HtmlYields)
  \/ Screenshot(r)
  \/ Recognize(r, OcrYields)
  \/ Stats(r)
  \/ Catch(r)
  \/ Close(r)
  \/ Respond(r)
  \/ HandlerCatch(r)

Step(r, Yields) == StepOf(r, Yields, Yields, Yields)

Next ==
  /\ \E r \in Reqs : Step(r, Lists)
  /\ UNCHANGED <<page, scroll>>

Spec == Init /\ [][Next]_vars

(* ---------------------------------------------------------------------- *)
(* calculatePriceStats on arbitrary price lists: a request whose          *)
(* structured scan yields any list of prices, in any order                *)
(* ---------------------------------------------------------------------- *)

\* longest price list handed to calculatePriceStats
MaxLen == 4

\* prices (in cents) of these lists: 10, 20, 30, 40 and 10.01
StatPrices == {1000, 2000, 3000, 4000, 1001}

StatLists == UNION {[1..n -> StatPrices] : n \in 0..MaxLen}

\* a request that has scrolled and waited and is about to scan the page
ScanningReq == [InitReq("phone", Undefined) EXCEPT !.pc = "domScan",
                                                   !.consent = "handled",
                                                   !.productGridFound = TRUE]

InitStats ==
  /\ req = [r \in Reqs |-> ScanningReq]
  /\ browser = [r \in Reqs |-> "open"]
  /\ calls = [r \in Reqs |->
                [c \in CallNames |->
                   IF c \in {"launch", "newPage", "goto"} THEN 1 ELSE 0]]
  /\ res = [r \in Reqs |-> NoResponse]
  /\ page = [r \in Reqs |-> NoPage]
  /\ scroll = NoScroll

\* the rest of the request: the structured scan yields any list, the markup
\* scan and the OCR find nothing
NextStats ==
  /\ \E r \in Reqs :
       \/ DomScan(r, StatLists)
       \/ HtmlScan(r, {<<>>})
       \/ Screenshot(r)
       \/ Recognize(r, {<<>>})
       \/ Stats(r)
       \/ Catch(r)
       \/ Close(r)
       \/ Respond(r)
       \/ HandlerCatch(r)
  /\ UNCHANGED <<page, scroll>>

SpecStats == InitStats /\ [][NextStats]_vars

(* ---------------------------------------------------------------------- *)
(* The currency pattern /R\s?(\d{1,3}(,\d{3})*(\.\d{1,2})?)/ and the      *)
(* conversion of a match to a price, on texts given as sequences of       *)
(* characters                                                             *)
(* ---------------------------------------------------------------------- *)

DigitChars == <<"0", "1", "2", "3", "4", "5", "6", "7", "8", "9">>

\* \d
IsDigit(t, i) ==
  i >= 1 /\ i <= Len(t) /\ \E d \in 1..10 : DigitChars[d] = t[i]

\* \s
IsSpace(t, i) == i >= 1 /\ i <= Len(t) /\ t[i] \in {" ", "\t", "\n"}

IsChar(t, i, c) == i >= 1 /\ i <= Len(t) /\ t[i] = c

DigitValue(c) == (CHOOSE d \in 1..10 : DigitChars[d] = c) - 1

\* the number written by the k digits of t from position i
RECURSIVE Number(_, _, _)
Number(t, i, k) ==
  IF k = 0 THEN 0
  ELSE 10 * Number(t, i, k - 1) + DigitValue(t[i + k - 1])

\* \d{1,3}, greedy: how many digits it takes at position i (0: no match)
LeadingDigits(t, i) ==
  IF ~IsDigit(t, i) THEN 0
  ELSE IF ~IsDigit(t, i + 1) THEN 1
  ELSE IF ~IsDigit(t, i + 2) THEN 2
  ELSE 3

\* (,\d{3})*, greedy, from position i with the integer part `whole` so far:
\* the position after the last group and the integer part with the commas
\* removed
RECURSIVE Groups(_, _, _)
Groups(t, i, whole) ==
  IF /\ IsChar(t, i, ",")
     /\ IsDigit(t, i + 1) /\ IsDigit(t, i + 2) /\ IsDigit(t, i + 3)
  THEN Groups(t, i + 4, 1000 * whole + Number(t, i + 1, 3))
  ELSE [end |-> i, whole |-> whole]

\* (\.\d{1,2})?, greedy, at position i: the position after it and the cents
Fraction(t, i) ==
  IF IsChar(t, i, ".") /\ IsDigit(t, i + 1)
  THEN IF IsDigit(t, i + 2)
       THEN [end |-> i + 3, cents |-> Number(t, i + 1, 2)]
       ELSE [end |-> i + 2, cents |-> 10 * Number(t, i + 1, 1)]
  ELSE [end |-> i, cents |-> 0]

NoMatch == [found |-> FALSE, end |-> 0, price |-> 0]

\* the match of the pattern that starts at position i, and
\* parseFloat(match[1].replace(/,/g, '')) in cents.  Everything after the
\* first digit is optional, so the greedy choices are never undone.
MatchAt(t, i) ==
  IF ~IsChar(t, i, "R") THEN NoMatch
  ELSE LET j == IF IsSpace(t, i + 1) THEN i + 2 ELSE i + 1
           k == LeadingDigits(t, j)
       IN IF k = 0 THEN NoMatch
          ELSE LET g == Groups(t, j + k, Number(t, j, k))
                   f == Fraction(t, g.end)
               IN [found |-> TRUE, end |-> f.end,
                   price |-> 100 * g.whole + f.cents]

\* priceText.match(pattern): the leftmost match from position i on
RECURSIVE FirstMatch(_, _)
FirstMatch(t, i) ==
  IF i > Len(t) THEN NoMatch
  ELSE IF MatchAt(t, i).found THEN MatchAt(t, i)
  ELSE FirstMatch(t, i + 1)

\* if (!isNaN(price) && price > 0) prices.push(price)
Kept(m) == IF m.found /\ m.price > 0 THEN <<m.price>> ELSE <<>>

\* getPricesFromElements: one match at most per matched element
RECURSIVE getPricesFromElements(_)
getPricesFromElements(elements) ==
  IF elements = <<>> THEN <<>>
  ELSE Kept(FirstMatch(Head(elements), 1))
         \o getPricesFromElements(Tail(elements))

\* the global scans (priceRegex.exec in a loop, rawText.matchAll): every
\* match from position i on, each search starting where the last match ended
RECURSIVE ScanAll(_, _)
ScanAll(t, i) ==
  LET m == FirstMatch(t, i)
  IN IF m.found THEN Kept(m) \o ScanAll(t, m.end) ELSE <<>>

(* ---------------------------------------------------------------------- *)
(* The three strategies on page texts                                     *)
(* ---------------------------------------------------------------------- *)

\* "R1,234.50" and the same price without the grouping comma
Grouped   == <<"R", "1", ",", "2", "3", "4", ".", "5", "0">>
Ungrouped == <<"R", "1", "2", "3", "4", ".", "5", "0">>

\* the texts a page shows: the two above, "R99", "R" alone, "R 5.5", "R0",
\* and "R1,234,567.89 R12,34"
Texts ==
  {Grouped, Ungrouped,
   <<"R", "9", "9">>,
   <<"R">>,
   <<"R", " ", "5", ".", "5">>,
   <<"R", "0">>,
   <<"R", "1", ",", "2", "3", "4", ",", "5", "6", "7", ".", "8", "9", " ",
     "R", "1", "2", ",", "3", "4">>}

\* the texts of the elements the price selectors match, in document order
ElementTexts ==
  {<<>>} \cup {<<t>> : t \in Texts} \cup {<<Grouped, u>> : u \in Texts}

\* the page of request r showed `text` to `strategy` if the step yielded
Shows(r, strategy, field, text) ==
  page' = IF strategy \in req'[r].yielded /\ strategy \notin req[r].yielded
          THEN [page EXCEPT ![r][field] = text]
          ELSE page

InitParse ==
  /\ req = [r \in Reqs |-> ScanningReq]
  /\ browser = [r \in Reqs |-> "open"]
  /\ calls = [r \in Reqs |->
                [c \in CallNames |->
                   IF c \in {"launch", "newPage", "goto"} THEN 1 ELSE 0]]
  /\ res = [r \in Reqs |-> NoResponse]
  /\ page = [r \in Reqs |-> NoPage]
  /\ scroll = NoScroll

\* the rest of the request, each strategy applying the pattern to what the
\* page shows it
NextParse ==
  /\ \E r \in Reqs :
       \/ \E els \in ElementTexts :
            /\ DomScan(r, {getPricesFromElements(els)})
            /\ Shows(r, "DOM", "dom", els)
       \/ \E t \in Texts :
            /\ HtmlScan(r, {ScanAll(t, 1)})
            /\ Shows(r, "HTML", "html", t)
       \/ \E t \in Texts :
            /\ Recognize(r, {ScanAll(t, 1)})
            /\ Shows(r, "OCR", "ocr", t)
       \/ /\ \/ Screenshot(r)
             \/ Stats(r)
             \/ Catch(r)
             \/ Close(r)
             \/ Respond(r)
             \/ HandlerCatch(r)
          /\ UNCHANGED page
  /\ UNCHANGED scroll

SpecParse == InitParse /\ [][NextParse]_vars

(* ---------------------------------------------------------------------- *)
(* Two requests in flight: express runs the async handler of the second   *)
(* while the first is suspended at an await, so their steps interleave    *)
(* ---------------------------------------------------------------------- *)

ConcReqs == {1, 2}

\* the lists the pages of concurrent requests yield: none, or one list that
\* reaches the threshold
ConcLists == {l \in Lists : Len(l) = 0 \/ (Len(l) = Threshold /\ l[1] = 1001)}

InitConc ==
  /\ InitOver(ConcReqs, {"phone"}, {Undefined})
  /\ scroll = NoScroll

NextConc ==
  /\ \E r \in ConcReqs : Step(r, ConcLists)
  /\ UNCHANGED <<page, scroll>>

SpecConc == InitConc /\ [][NextConc]_vars

(* ---------------------------------------------------------------------- *)
(* The same search without and with debug=true against one page           *)
(* behaviour: the plain run completes, then the debug run takes every     *)
(* step the two runs share with the outcome it had in the plain run       *)
(* ---------------------------------------------------------------------- *)

PlainRun == 1
DebugRun == 2

\* the steps only a request with debug=true takes: page.content and
\* fs.writeFile of the page HTML, fs.writeFile of the screenshot, fs.writeFile
\* of the OCR text
DebugSteps == {"debugHtml", "debugScreenshot", "debugOcr"}

\* the awaited call a request at `pc` makes
StepAt(pc) ==
  CASE pc = "ocr"     -> "screenshot"
    [] pc = "finally" -> "close"
    [] OTHER          -> pc

\* the step the debug run takes from record q to record q2 goes as it went
\* in the plain run, whose final record is p: the same calls reject, the
\* same probes find their element, the same strategies yield the same lists
\* and the statistics are rounded alike
SamePage(p, q, q2) ==
  /\ (q2.failures \ DebugSteps) \subseteq p.failures
  /\ StepAt(q.pc) \in p.failures => StepAt(q.pc) \in q2.failures
  /\ q2.consent \in {"unknown", p.consent}
  /\ q.pc = "grid" => q2.productGridFound = p.productGridFound
  /\ \A s \in q2.yielded : s \in p.yielded
  /\ "DOM" \in q2.yielded => q2.pricesFromDOM = p.pricesFromDOM
  /\ "HTML" \in q2.yielded => q2.pricesFromHTML = p.pricesFromHTML
  /\ "OCR" \in q2.yielded => q2.pricesFromOCR = p.pricesFromOCR
  /\ q.pc = "stats" => q2.result.stats = p.result.stats

InitPair ==
  /\ req = [r \in {PlainRun, DebugRun} |->
              IF r = PlainRun THEN InitReq("phone", Undefined)
                              ELSE InitReq("phone", "true")]
  /\ browser = [r \in {PlainRun, DebugRun} |-> "none"]
  /\ calls = [r \in {PlainRun, DebugRun} |-> [c \in CallNames |-> 0]]
  /\ res = [r \in {PlainRun, DebugRun} |-> NoResponse]
  /\ page = [r \in {PlainRun, DebugRun} |-> NoPage]
  /\ scroll = NoScroll

NextPair ==
  /\ \/ /\ req[PlainRun].pc # "done"
        /\ Step(PlainRun, ConcLists)
     \/ /\ req[PlainRun].pc = "done"
        /\ Step(DebugRun, ConcLists)
        /\ SamePage(req[PlainRun], req[DebugRun], req'[DebugRun])
  /\ UNCHANGED <<page, scroll>>

SpecPair == InitPair /\ [][NextPair]_vars

(* ---------------------------------------------------------------------- *)
(* autoScroll: the interval timer inside page.evaluate                    *)
(* ---------------------------------------------------------------------- *)

\* const distance = 400
distance == 400

\* how often the page grows by lazy loading in the model
MaxGrowths == 2

\* document.body.scrollHeight when the promise is created, in pixels
DocHeights == {500, 1080, 2000, 3100}

\* window.innerHeight: puppeteer's default viewport and setViewport's 1080
InnerHeights == {600, 1080}

\* pixels one lazy load adds to the document
GrowSteps == {300, 800}

\* no totalHeight of an unresolved promise reaches this
HeightCap == 3100 + MaxGrowths * 800 + 2 * distance

\* variant: the stop test written with ===
StopConditionExact(totalHeight, scrollHeight, innerHeight) ==
  totalHeight = scrollHeight - innerHeight

\* if (totalHeight >= document.body.scrollHeight - window.innerHeight)
StopCondition(totalHeight, scrollHeight, innerHeight) ==
  totalHeight >= scrollHeight - innerHeight

\* the timer callback: scrollBy, totalHeight += distance, and when the stop
\* test holds clearInterval and resolve; a cleared timer never fires again
Tick ==
  /\ ~scroll.resolved
  /\ scroll.totalHeight < HeightCap
  /\ LET total == scroll.totalHeight + distance
     IN scroll' = [scroll EXCEPT
                     !.totalHeight = total,
                     !.resolved = StopCondition(total, scroll.scrollHeight,
                                                scroll.innerHeight)]
  /\ UNCHANGED <<req, browser, calls, res, page>>

\* between two ticks the page loads more content and gets taller
Grow ==
  /\ scroll.growing
  /\ scroll.growths < MaxGrowths
  /\ \E g \in GrowSteps :
       scroll' = [scroll EXCEPT !.scrollHeight = @ + g, !.growths = @ + 1]
  /\ UNCHANGED <<req, browser, calls, res, page>>

\* the page has loaded all it has: its height no longer increases
Settle ==
  /\ scroll.growing
  /\ scroll' = [scroll EXCEPT !.growing = FALSE]
  /\ UNCHANGED <<req, browser, calls, res, page>>

\* await page.evaluate(...) returns once the promise is resolved
ScrollReturns(r) ==
  /\ req[r].pc = "scroll"
  /\ scroll.resolved
  /\ Goes(r, "wait")
  /\ UNCHANGED <<browser, calls, res, page, scroll>>

\* a request that has reached await autoScroll(page)
ScrollingReq ==
  [InitReq("phone", Undefined) EXCEPT !.pc = "scroll", !.consent = "absent",
                                      !.failures = {"consent"},
                                      !.productGridFound = TRUE]

InitScroll ==
  /\ req = [r \in Reqs |-> ScrollingReq]
  /\ browser = [r \in Reqs |-> "open"]
  /\ calls = [r \in Reqs |->
                [c \in CallNames |->
                   IF c \in {"launch", "newPage", "goto"} THEN 1 ELSE 0]]
  /\ res = [r \in Reqs |-> NoResponse]
  /\ page = [r \in Reqs |-> NoPage]
  /\ scroll \in [totalHeight : {0}, scrollHeight : DocHeights,
                 innerHeight : InnerHeights, growths : {0},
                 growing : {TRUE}, resolved : {FALSE}]

NextScroll ==
  \/ Tick
  \/ Grow
  \/ Settle
  \/ \E r \in Reqs : ScrollReturns(r)

\* setInterval fires the callback again and again until clearInterval
SpecScroll == InitScroll /\ [][NextScroll]_vars /\ WF_vars(Tick)

(* ---------------------------------------------------------------------- *)
(* The OCR-only pipeline (src/unnamed/part_000)                           *)
(* ---------------------------------------------------------------------- *)

\* Where control goes when the awaited call of `step` rejects in the
\* OCR-only pipeline: only the consent probe has a try/catch of its own.
OnThrowOcrOnly(step) ==
  CASE step \in {"launch", "newPage", "close"} -> "handlerCatch"
    [] step = "consent" -> "scroll"
    [] OTHER            -> "catch"

OcrOnlyThrows(r, step) ==
  req' = [req EXCEPT ![r].pc = OnThrowOcrOnly(step),
                     ![r].failures = @ \cup {step},
                     ![r].error =
                        IF OnThrowOcrOnly(step) \in {"catch", "handlerCatch"}
                        THEN step ELSE @]

\* app.get('/api/prices'): there is no debug parameter
OcrOnlyStart(r) ==
  /\ req[r].pc = "start"
  /\ IF Falsy(req[r].searchTerm)
     THEN /\ res' = [res EXCEPT ![r] =
                       [status |-> 400, error |-> "Search term is required"]]
          /\ Goes(r, "done")
     ELSE /\ Goes(r, "launch")
          /\ UNCHANGED res
  /\ UNCHANGED <<browser, calls>>

\* const browser = await puppeteer.launch(...)
OcrOnlyLaunch(r) ==
  /\ req[r].pc = "launch"
  /\ Call(r, "launch")
  /\ \/ /\ browser' = [browser EXCEPT ![r] = "open"]
        /\ Goes(r, "newPage")
     \/ /\ OcrOnlyThrows(r, "launch")
        /\ UNCHANGED browser
  /\ UNCHANGED res

\* const page = await browser.newPage()
OcrOnlyNewPage(r) ==
  /\ req[r].pc = "newPage"
  /\ Call(r, "newPage")
  /\ \/ Goes(r, "goto")
     \/ OcrOnlyThrows(r, "newPage")
  /\ UNCHANGED <<browser, res>>

\* await page.goto(url, { waitUntil: 'domcontentloaded', timeout: 60000 })
OcrOnlyGoto(r) ==
  /\ req[r].pc = "goto"
  /\ Call(r, "goto")
  /\ \/ Goes(r, "consent")
     \/ OcrOnlyThrows(r, "goto")
  /\ UNCHANGED <<browser, res>>

\* try { waitForSelector(cookie button); click } catch { }
OcrOnlyConsent(r) ==
  /\ req[r].pc = "consent"
  /\ \/ req' = [req EXCEPT ![r].pc = "scroll", ![r].consent = "handled"]
     \/ req' = [req EXCEPT ![r].pc = OnThrowOcrOnly("consent"),
                           ![r].failures = @ \cup {"consent"},
                           ![r].consent = "absent"]
  /\ UNCHANGED <<browser, calls, res>>

\* await autoScroll(page)
OcrOnlyScroll(r) ==
  /\ req[r].pc = "scroll"
  /\ \/ Goes(r, "waitPrice")
     \/ OcrOnlyThrows(r, "scroll")
  /\ UNCHANGED <<browser, calls, res>>

\* await page.waitForSelector('[class*="price"]', { timeout: 10000 })
OcrOnlyWaitPrice(r) ==
  /\ req[r].pc = "waitPrice"
  /\ \/ Goes(r, "ocr")
     \/ OcrOnlyThrows(r, "waitPrice")
  /\ UNCHANGED <<browser, calls, res>>

\* const screenshotBuffer = await page.screenshot({ fullPage: true })
OcrOnlyScreenshot(r) ==
  /\ req[r].pc = "ocr"
  /\ Call(r, "screenshot")
  /\ \/ Goes(r, "recognize")
     \/ OcrOnlyThrows(r, "screenshot")
  /\ UNCHANGED <<browser, res>>

\* result = await Tesseract.recognize(...); prices = matchAll, map, filter
OcrOnlyRecognize(r, Yields) ==
  /\ req[r].pc = "recognize"
  /\ Call(r, "recognize")
  /\ \/ \E l \in Yields :
          req' = [req EXCEPT ![r].pc = "stats",
                             ![r].pricesFromOCR = l,
                             ![r].prices = l,
                             ![r].yielded = @ \cup {"OCR"}]
     \/ OcrOnlyThrows(r, "recognize")
  /\ UNCHANGED <<browser, res>>

\* stats = calculatePriceStats(prices); return { searchTerm, results }
OcrOnlyStats(r) ==
  /\ req[r].pc = "stats"
  /\ \E rnd \in Roundings :
       LET stats  == calculatePriceStats(req[r].prices, rnd)
           prices == PricesAfterStats(req[r].prices)
       IN req' = [req EXCEPT ![r].pc = "finally",
                             ![r].prices = prices,
                             ![r].result =
                               [status |-> 200,
                                searchTerm |-> req[r].searchTerm,
                                totalPricesFound |-> Len(prices),
                                prices |-> prices,
                                stats |-> stats]]
  /\ UNCHANGED <<browser, calls, res>>

\* catch (error) { throw error }
OcrOnlyCatch(r) ==
  /\ req[r].pc = "catch"
  /\ Goes(r, "finally")
  /\ UNCHANGED <<browser, calls, res>>

\* finally { await browser.close() }
OcrOnlyClose(r) ==
  /\ req[r].pc = "finally"
  /\ Call(r, "close")
  /\ \/ /\ browser' = [browser EXCEPT ![r] = "closed"]
        /\ Goes(r, IF req[r].error = "none" THEN "respond" ELSE "handlerCatch")
     \/ /\ \E b \in {"open", "closed"} : browser' = [browser EXCEPT ![r] = b]
        /\ OcrOnlyThrows(r, "close")
  /\ UNCHANGED res

\* res.json(priceData)
OcrOnlyRespond(r) ==
  /\ req[r].pc = "respond"
  /\ res' = [res EXCEPT ![r] = req[r].result]
  /\ Goes(r, "done")
  /\ UNCHANGED <<browser, calls>>

\* catch (error) { console.error; res.status(500).json({ error, message }) }
OcrOnlyHandlerCatch(r) ==
  /\ req[r].pc = "handlerCatch"
  /\ res' = [res EXCEPT ![r] =
               [status |-> 500, error |-> "Failed to process request",
                message |-> req[r].error]]
  /\ Goes(r, "done")
  /\ UNCHANGED <<browser, calls>>

OcrOnlyStep(r, Yields) ==
  \/ OcrOnlyStart(r)
  \/ OcrOnlyLaunch(r)
  \/ OcrOnlyNewPage(r)
  \/ OcrOnlyGoto(r)
  \/ OcrOnlyConsent(r)
  \/ OcrOnlyScroll(r)
  \/ OcrOnlyWaitPrice(r)
  \/ OcrOnlyScreenshot(r)
  \/ OcrOnlyRecognize(r, Yields)
  \/ OcrOnlyStats(r)
  \/ OcrOnlyCatch(r)
  \/ OcrOnlyClose(r)
  \/ OcrOnlyRespond(r)
  \/ OcrOnlyHandlerCatch(r)

InitOcrOnly ==
  /\ InitOver(Reqs, SearchTerms, {Undefined})
  /\ scroll = NoScroll

NextOcrOnly ==
  /\ \E r \in Reqs : OcrOnlyStep(r, Lists)
  /\ UNCHANGED <<page, scroll>>

SpecOcrOnly == InitOcrOnly /\ [][NextOcrOnly]_vars

(* ---------------------------------------------------------------------- *)
(* Vocabulary of the properties                                           *)
(* ---------------------------------------------------------------------- *)

Done(r) == req[r].pc = "done"

\* the request's puppeteer.launch resolved
Launched(r) == browser[r] # "none"

\* the steps whose failure the inner try/catch blocks are written to absorb
ToleratedSteps == {"goto", "consent", "grid"}

\* the state of the request-level state machine a request record is in; a
\* request is in SESSION_OPEN while the context is acquired and set up
\* (launch, newPage, set-up, goto) and in NAVIGATED once goto has returned
StateAt(rq) ==
  CASE rq.pc = "start" -> "INIT"
    [] rq.pc \in {"launch", "newPage", "setup", "goto"} -> "SESSION_OPEN"
    [] rq.pc \in {"debugHtml", "consent"} -> "NAVIGATED"
    [] rq.pc \in {"grid", "scroll"} ->
         IF rq.consent = "handled" THEN "CONSENT_HANDLED" ELSE "CONSENT_ABSENT"
    [] rq.pc \in {"wait", "waitPrice", "domScan", "htmlScan", "ocr",
                  "recognize"} -> "SCROLLED"
    [] rq.pc = "stats" -> "EXTRACTED"
    [] rq.pc \in {"catch", "handlerCatch"} -> "ERROR"
    [] rq.pc \in {"finally", "respond"} ->
         IF rq.error = "none" THEN "STATS_COMPUTED" ELSE "ERROR"
    [] rq.pc = "done" ->
         IF rq.error # "none" THEN "ERROR"
         ELSE IF rq.result.status = 200 THEN "DONE" ELSE "REJECTED"

EntersError(r) ==
  StateAt(req[r]) # "ERROR" /\ StateAt(req'[r]) = "ERROR"

(* ---------------------------------------------------------------------- *)
(* C1                                                                     *)
(* ---------------------------------------------------------------------- *)

\* C1: every finished request whose puppeteer.launch succeeded has invoked
\* browser.close() exactly once, whichever later step raised, the newPage
\* call included; no request ends with its browser still open.
C1_CloseExactlyOncePerLaunch ==
  \A r \in DOMAIN req :
    /\ calls[r].close <= 1
    /\ (Done(r) /\ Launched(r)) => calls[r].close = 1

(* ---------------------------------------------------------------------- *)
(* C2                                                                     *)
(* ---------------------------------------------------------------------- *)

\* C2: once the structured scan has yielded at least 5 prices, the markup
\* scan and the OCR step (screenshot, recognize) are never invoked in that
\* request (page.content is called only for the debug HTML dump), and the
\* adopted prices, also in the success response, are the structured scan's.
C2_StructuredSufficient ==
  \A r \in DOMAIN req :
    ("DOM" \in req[r].yielded /\ Len(req[r].pricesFromDOM) >= Threshold) =>
      /\ req[r].yielded = {"DOM"}
      /\ req[r].failures \cap
           {"htmlScan", "screenshot", "debugScreenshot", "recognize",
            "debugOcr"} = {}
      /\ calls[r].content = (IF req[r].debug THEN 1 ELSE 0)
      /\ calls[r].screenshot = 0
      /\ calls[r].recognize = 0
      /\ req[r].prices = req[r].pricesFromDOM
      /\ res[r].status = 200 => res[r].prices = req[r].pricesFromDOM

C2_Witness ==
  \E r \in DOMAIN req :
    /\ Done(r)
    /\ res[r].status = 200
    /\ Len(req[r].pricesFromDOM) >= Threshold
    /\ res[r].prices = req[r].pricesFromDOM

(* ---------------------------------------------------------------------- *)
(* C3                                                                     *)
(* ---------------------------------------------------------------------- *)

\* C3: when all three strategies have yielded fewer than 5 prices, the
\* adopted list is that of the strategy whose yield is strictly higher than
\* the other two, and its length is the highest yield, zero included; the
\* yields raise no error, so the request ends with the success response
\* carrying the adopted list (only a rejected browser.close() can still
\* fail it).
C3_HighestYieldAdopted ==
  \A r \in DOMAIN req :
    LET d == Len(req[r].pricesFromDOM)
        h == Len(req[r].pricesFromHTML)
        o == Len(req[r].pricesFromOCR)
    IN (/\ req[r].yielded = {"DOM", "HTML", "OCR"}
        /\ d < Threshold /\ h < Threshold /\ o < Threshold) =>
         /\ (d > h /\ d > o) => req[r].prices = req[r].pricesFromDOM
         /\ (h > d /\ h > o) => req[r].prices = req[r].pricesFromHTML
         /\ (o > d /\ o > h) => req[r].prices = req[r].pricesFromOCR
         /\ Len(req[r].prices) >= d
         /\ Len(req[r].prices) >= h
         /\ Len(req[r].prices) >= o
         /\ req[r].error \in {"none", "close"}
         /\ (Done(r) /\ "close" \notin req[r].failures) =>
              /\ res[r].status = 200
              /\ res[r].prices = req[r].prices
              /\ res[r].totalPricesFound = Len(req[r].prices)

C3_Witness ==
  \E r \in DOMAIN req :
    /\ Done(r)
    /\ req[r].yielded = {"DOM", "HTML", "OCR"}
    /\ Len(req[r].pricesFromDOM) = 0
    /\ Len(req[r].pricesFromOCR) = 0
    /\ Len(req[r].pricesFromHTML) = 0
    /\ res[r].status = 200
    /\ res[r].totalPricesFound = 0

(* ---------------------------------------------------------------------- *)
(* C4                                                                     *)
(* ---------------------------------------------------------------------- *)

\* C4: the OCR strategy is attempted (page.screenshot is called) only in a
\* request whose structured scan and markup scan both yielded fewer than 5
\* prices, and in every such request it is attempted, exactly once, as soon
\* as the second cascade guard has been evaluated.
C4_OcrIffBothBelow ==
  \A r \in DOMAIN req :
    LET bothBelow ==
          /\ {"DOM", "HTML"} \subseteq req[r].yielded
          /\ Len(req[r].pricesFromDOM) < Threshold
          /\ Len(req[r].pricesFromHTML) < Threshold
    IN /\ (calls[r].screenshot > 0 \/ calls[r].recognize > 0) => bothBelow
       /\ (bothBelow /\ req[r].pc # "ocr") => calls[r].screenshot = 1

C4_Witness ==
  \E r \in DOMAIN req :
    /\ Done(r)
    /\ calls[r].screenshot = 1
    /\ calls[r].recognize = 1
    /\ Len(req[r].pricesFromDOM) = Threshold - 1
    /\ Len(req[r].pricesFromHTML) = Threshold - 1

(* ---------------------------------------------------------------------- *)
(* C5                                                                     *)
(* ---------------------------------------------------------------------- *)

\* C5: when the structured scan yielded fewer than 5 prices and the markup
\* scan at least 5, the adopted list is exactly the markup scan's list, in
\* its order, also in the success response, and OCR is not invoked.
C5_MarkupAdopted ==
  \A r \in DOMAIN req :
    (/\ {"DOM", "HTML"} \subseteq req[r].yielded
     /\ Len(req[r].pricesFromDOM) < Threshold
     /\ Len(req[r].pricesFromHTML) >= Threshold) =>
      /\ req[r].prices = req[r].pricesFromHTML
      /\ "OCR" \notin req[r].yielded
      /\ calls[r].screenshot = 0
      /\ calls[r].recognize = 0
      /\ res[r].status = 200 => res[r].prices = req[r].pricesFromHTML

C5_Witness ==
  \E r \in DOMAIN req :
    /\ Done(r)
    /\ res[r].status = 200
    /\ Len(req[r].pricesFromDOM) = 2
    /\ Len(req[r].pricesFromHTML) > Threshold
    /\ req[r].pricesFromDOM[1] # req[r].pricesFromHTML[1]
    /\ res[r].prices = req[r].pricesFromHTML

(* ---------------------------------------------------------------------- *)
(* C6                                                                     *)
(* ---------------------------------------------------------------------- *)

\* the steps after navigation that the claim lists
StepsAfterNavigation ==
  {"consent", "grid", "scroll", "wait", "domScan", "htmlScan", "ocr",
   "recognize", "stats"}

FatalSteps ==
  {"launch", "newPage", "setup", "debugHtml", "scroll", "wait", "domScan",
   "htmlScan", "ocr", "recognize", "finally"}

C7_NavigationFailureTolerated ==
  \A r \in DOMAIN req :
    /\ req[r].error # "goto"
    /\ res[r].status = 500 => res[r].message # "goto"
    /\ ("goto" \in req[r].failures /\ Done(r)
          /\ req[r].failures \subseteq ToleratedSteps) =>
         /\ res[r].status = 200
         /\ req[r].consent \in {"handled", "absent"}
         /\ "DOM" \in req[r].yielded

C7_Witness ==
  \E r \in DOMAIN req :
    /\ Done(r)
    /\ req[r].failures = {"goto"}
    /\ req[r].consent = "handled"
    /\ res[r].status = 200

(* ---------------------------------------------------------------------- *)
(* C8                                                                     *)
(* ---------------------------------------------------------------------- *)

\* C8: a request whose page.screenshot or Tesseract.recognize rejected ends
\* with the error response (status 500, error and message fields), never
\* with a success response built from the cheaper strategies' prices, and
\* browser.close() has been invoked once.
C8_OcrFailurePropagates ==
  \A r \in DOMAIN req :
    (Done(r) /\ req[r].failures \cap {"screenshot", "recognize"} # {}) =>
      /\ res[r].status = 500
      /\ res[r].error = "Failed to process request"
      /\ res[r].message \in {"screenshot", "recognize", "close"}
      /\ req[r].result = NoResponse
      /\ calls[r].close = 1
      /\ "close" \notin req[r].failures => browser[r] = "closed"

C8_Witness ==
  \E r \in DOMAIN req :
    /\ Done(r)
    /\ "recognize" \in req[r].failures
    /\ Len(req[r].pricesFromHTML) > 0
    /\ res[r].status = 500
    /\ res[r].message = "recognize"
    /\ browser[r] = "closed"

(* ---------------------------------------------------------------------- *)
(* C9                                                                     *)
(* ---------------------------------------------------------------------- *)

\* the heuristic steps other than OCR
HeuristicSteps == {"scroll", "wait", "domScan", "htmlScan"}

\* C9: the rejection of a heuristic step other than OCR (scroll, post-scroll
\* wait, structured scan, markup scan) is absorbed: it is never the pending
\* error of the request, and a request whose failures are heuristic or
\* tolerated steps only ends with the success response.
C9_HeuristicFailuresAbsorbed ==
  \A r \in DOMAIN req :
    /\ req[r].error \notin HeuristicSteps
    /\ (Done(r) /\ req[r].failures # {}
          /\ req[r].failures \subseteq HeuristicSteps \cup ToleratedSteps) =>
         res[r].status = 200

(* ---------------------------------------------------------------------- *)
(* C10                                                                    *)
(* ---------------------------------------------------------------------- *)

\* C10: a request whose search term is absent or empty never launches (nor
\* closes) a browser, calls nothing of puppeteer or Tesseract, and is
\* answered with status 400.
C10_InvalidInputOpensNoBrowser ==
  \A r \in DOMAIN req :
    (req[r].searchTerm = Undefined \/ req[r].searchTerm = "") =>
      /\ \A c \in CallNames : calls[r][c] = 0
      /\ browser[r] = "none"
      /\ req[r].pc \in {"start", "done"}
      /\ Done(r) => res[r].status = 400

C10_Witness ==
  \E r \in DOMAIN req :
    /\ Done(r)
    /\ req[r].searchTerm = ""
    /\ res[r].status = 400
    /\ calls[r].launch = 0

(* ---------------------------------------------------------------------- *)
(* C11                                                                    *)
(* ---------------------------------------------------------------------- *)

ConsentStates == {"CONSENT_HANDLED", "CONSENT_ABSENT"}

\* C11: a missing consent banner (or a failed click) and the absence of all
\* four product-grid selectors are tolerated: the consent probe always leads
\* to the grid probes and these to the scroll step, whatever they found, and
\* a request that leaves CONSENT_HANDLED or CONSENT_ABSENT is in SCROLLED
\* next.
C11_ConsentLeadsToScrolled ==
  [][\A r \in DOMAIN req :
       /\ (req[r].pc = "consent" /\ req'[r] # req[r]) => req'[r].pc = "grid"
       /\ (req[r].pc = "grid" /\ req'[r] # req[r]) => req'[r].pc = "scroll"
       /\ (/\ StateAt(req[r]) \in ConsentStates
           /\ StateAt(req'[r]) \notin ConsentStates) =>
            StateAt(req'[r]) = "SCROLLED"]_vars

(* ---------------------------------------------------------------------- *)
(* C12                                                                    *)
(* ---------------------------------------------------------------------- *)

\* the steps of the OCR-only pipeline the claim says degrade gracefully
GracefulSteps == {"goto", "waitPrice"}

\* C12: in the OCR-only pipeline a rejected page.goto or a missing price
\* element is never the request's error: a request whose failures are these
\* (and the consent probe) only still takes the screenshot, runs the OCR and
\* the statistics and ends with the success response.
C12_OcrOnlyDegradesGracefully ==
  \A r \in DOMAIN req :
    /\ req[r].error \notin GracefulSteps
    /\ (/\ Done(r)
        /\ req[r].failures \cap GracefulSteps # {}
        /\ req[r].failures \subseteq GracefulSteps \cup {"consent"}) =>
         /\ calls[r].screenshot = 1
         /\ calls[r].recognize = 1
         /\ res[r].status = 200

(* ---------------------------------------------------------------------- *)
(* C13                                                                    *)
(* ---------------------------------------------------------------------- *)

\* the steps during which a request uses the browser it launched
UsesBrowser ==
  {"newPage", "setup", "goto", "debugHtml", "consent", "grid", "scroll",
   "wait", "domScan", "htmlScan", "ocr", "recognize", "stats", "catch",
   "finally"}

\* a request's browser is launched and closed by that request alone: it is
\* open for as long as the request uses it, whatever the other request does
OwnBrowser ==
  \A q \in DOMAIN req :
    /\ calls[q].launch <= 1 /\ calls[q].close <= 1
    /\ browser[q] = "none" =>
         (calls[q].close = 0 /\ req[q].pc \in {"start", "launch",
                                               "handlerCatch", "done"})
    /\ req[q].pc \in UsesBrowser => browser[q] = "open"
    /\ browser[q] = "closed" => calls[q].close = 1
    /\ res[q].status = 200 =>
         /\ res[q].prices = req[q].prices
         /\ res[q].searchTerm = req[q].searchTerm

\* C13: under every interleaving of two requests, a step (a success, a
\* failure, a timeout, a degraded extraction) of one request changes the
\* browser state, the calls, the adopted prices and the response of that
\* request only, and each request's browser is launched and closed by that
\* request alone.
C13_RequestsIndependent ==
  [][/\ \E r \in DOMAIN req :
          \A q \in DOMAIN req \ {r} :
            /\ req'[q] = req[q]
            /\ browser'[q] = browser[q]
            /\ calls'[q] = calls[q]
            /\ res'[q] = res[q]
     /\ OwnBrowser']_vars

\* request 1 has failed in the scroll and is about to close its browser
\* while request 2 is in the middle of its structured scan
C13_Witness ==
  /\ DOMAIN req = ConcReqs
  /\ req[1].pc = "finally"
  /\ req[1].error = "scroll"
  /\ req[2].pc = "domScan"
  /\ "goto" \in req[2].failures
  /\ browser[1] = "open"
  /\ browser[2] = "open"

(* ---------------------------------------------------------------------- *)
(* C14                                                                    *)
(* ---------------------------------------------------------------------- *)

\* the document height no longer increases
StoppedGrowing == ~scroll.growing \/ scroll.growths >= MaxGrowths

\* C14: with the timer ticking fairly, from every state in which the
\* document height no longer increases the scroll loop eventually resolves.
C14_ScrollTerminates == StoppedGrowing ~> scroll.resolved

\* the loop resolved after several ticks on a page that grew and then stopped
C14_Witness ==
  /\ scroll.resolved
  /\ ~scroll.growing
  /\ scroll.growths > 0
  /\ scroll.totalHeight > 2 * distance
  /\ scroll.totalHeight >= scroll.scrollHeight - scroll.innerHeight
  /\ scroll.totalHeight - distance < scroll.scrollHeight - scroll.innerHeight

(* ---------------------------------------------------------------------- *)
(* C15                                                                    *)
(* ---------------------------------------------------------------------- *)

\* C15: in every success response totalPricesFound is the length of the
\* returned prices list and equals stats.count, whichever strategy was
\* adopted and whatever its yield.
C15_CountsAgree ==
  \A r \in DOMAIN req :
    /\ res[r].status = 200 =>
         /\ res[r].totalPricesFound = Len(res[r].prices)
         /\ res[r].totalPricesFound = res[r].stats.count
    /\ req[r].result.status = 200 =>
         /\ req[r].result.totalPricesFound = Len(req[r].result.prices)
         /\ req[r].result.totalPricesFound = req[r].result.stats.count

C15_Witness ==
  \E r \in DOMAIN req :
    /\ Done(r)
    /\ res[r].status = 200
    /\ Len(req[r].pricesFromDOM) = 1
    /\ Len(req[r].pricesFromHTML) = 0
    /\ res[r].prices = req[r].pricesFromOCR
    /\ res[r].totalPricesFound = 3
    /\ res[r].stats.count = 3

(* ---------------------------------------------------------------------- *)
(* C16                                                                    *)
(* ---------------------------------------------------------------------- *)

\* C16: for every non-empty list of positive prices with at most two
\* fractional digits the statistics satisfy min <= median <= max and
\* min <= average <= max, average and median being the rounded values.
C16_StatsOrdered ==
  \A r \in DOMAIN req :
    (req[r].result.status = 200 /\ Len(req[r].result.prices) > 0) =>
      LET st == req[r].result.stats
      IN /\ st.min <= st.median /\ st.median <= st.max
         /\ st.min <= st.average /\ st.average <= st.max

\* an unsorted list whose average (20.0025) is rounded and whose median
\* (15.005) lies halfway between two cents
C16_Witness ==
  \E r \in DOMAIN req :
    /\ req[r].result.status = 200
    /\ req[r].result.prices = <<4000, 1001, 1000, 2000>>
    /\ req[r].result.stats.average = 2000
    /\ req[r].result.stats.median = 1500
    /\ req[r].result.stats.min = 1000
    /\ req[r].result.stats.max = 4000

(* ---------------------------------------------------------------------- *)
(* C17                                                                    *)
(* ---------------------------------------------------------------------- *)

\* the k-th smallest element of the list s, counted with repetitions
Kth(s, k) ==
  CHOOSE x \in {s[i] : i \in 1..Len(s)} :
    /\ Cardinality({i \in 1..Len(s) : s[i] < x}) < k
    /\ k <= Cardinality({i \in 1..Len(s) : s[i] <= x})

\* m is (a + b) / 2 rounded to the cent
RoundedMean(m, a, b) ==
  IF (a + b) % 2 = 0 THEN 2 * m = a + b ELSE 2 * m \in {a + b - 1, a + b + 1}

\* C17: calculatePriceStats agrees with the reference definition on every
\* list: all five fields are 0 for the empty list; otherwise count is the
\* length, min and max the smallest and largest element, median the middle
\* element of the ascending order (odd length) or the mean of the two middle
\* elements rounded to the cent (even length), whatever the order of the
\* list, which is returned as it was given.
C17_StatsMatchReference ==
  \A r \in DOMAIN req :
    req[r].result.status = 200 =>
      LET in == req[r].pricesFromDOM
          n  == Len(in)
          st == req[r].result.stats
      IN /\ req[r].result.prices = in
         /\ req[r].prices = in
         /\ n = 0 => st = [average |-> 0, median |-> 0, min |-> 0,
                           max |-> 0, count |-> 0]
         /\ n > 0 =>
              /\ st.count = n
              /\ st.min = Kth(in, 1)
              /\ st.max = Kth(in, n)
              /\ \A i \in 1..n : st.min <= in[i] /\ in[i] <= st.max
              /\ n % 2 = 1 => st.median = Kth(in, (n + 1) \div 2)
              /\ n % 2 = 0 =>
                   RoundedMean(st.median, Kth(in, n \div 2),
                               Kth(in, n \div 2 + 1))

\* [40, 10, 30, 20] gives the median 25 and is returned unsorted
C17_Witness ==
  \E r \in DOMAIN req :
    /\ req[r].result.status = 200
    /\ req[r].pricesFromDOM = <<4000, 1000, 3000, 2000>>
    /\ req[r].result.prices = <<4000, 1000, 3000, 2000>>
    /\ req[r].result.stats.median = 2500
    /\ req[r].result.stats.count = 4

(* ---------------------------------------------------------------------- *)
(* C18                                                                    *)
(* ---------------------------------------------------------------------- *)

\* R1,234.50 in cents
GroupedPrice == 100 * 1234 + 50

\* C18: thousands grouping is optional in all three strategies: a strategy
\* that read "R1234.50" has extracted the same single price as one that read
\* "R1,234.50", which is 1234.50.
C18_GroupingOptional ==
  \A r \in DOMAIN req :
    /\ ("DOM" \in req[r].yielded /\ page[r].dom \in {<<Grouped>>, <<Ungrouped>>})
         => req[r].pricesFromDOM = <<GroupedPrice>>
    /\ ("HTML" \in req[r].yielded /\ page[r].html \in {Grouped, Ungrouped})
         => req[r].pricesFromHTML = <<GroupedPrice>>
    /\ ("OCR" \in req[r].yielded /\ page[r].ocr \in {Grouped, Ungrouped})
         => req[r].pricesFromOCR = <<GroupedPrice>>

(* ---------------------------------------------------------------------- *)
(* C19                                                                    *)
(* ---------------------------------------------------------------------- *)

\* the strategies in the order the cascade tries them
StrategyOrder == <<"DOM", "HTML", "OCR">>

YieldOf(rq, strategy) ==
  CASE strategy = "DOM" -> rq.pricesFromDOM
    [] strategy = "HTML" -> rq.pricesFromHTML
    [] strategy = "OCR" -> rq.pricesFromOCR

\* C19: once a strategy has yielded, the adopted list is the whole output of
\* one strategy that yielded, never a merge; no strategy that yielded has a
\* longer output; and every earlier strategy that yielded has a strictly
\* shorter one, so on a tie the earlier strategy's values are kept.
C19_OneStrategyAdopted ==
  \A r \in DOMAIN req :
    req[r].yielded # {} =>
      \E i \in DOMAIN StrategyOrder :
        /\ StrategyOrder[i] \in req[r].yielded
        /\ req[r].prices = YieldOf(req[r], StrategyOrder[i])
        /\ \A j \in DOMAIN StrategyOrder :
             StrategyOrder[j] \in req[r].yielded =>
               /\ Len(YieldOf(req[r], StrategyOrder[j])) <= Len(req[r].prices)
               /\ j < i =>
                    Len(YieldOf(req[r], StrategyOrder[j])) < Len(req[r].prices)

\* all three strategies ran, the first two tie with different values, the
\* third yields less, and the response carries the first one's values
C19_Witness ==
  \E r \in DOMAIN req :
    /\ Done(r)
    /\ res[r].status = 200
    /\ req[r].yielded = {"DOM", "HTML", "OCR"}
    /\ Len(req[r].pricesFromDOM) = 2
    /\ Len(req[r].pricesFromHTML) = 2
    /\ Len(req[r].pricesFromOCR) = 1
    /\ req[r].pricesFromDOM # req[r].pricesFromHTML
    /\ res[r].prices = req[r].pricesFromDOM

(* ---------------------------------------------------------------------- *)
(* C20                                                                    *)
(* ---------------------------------------------------------------------- *)

\* C20: the debug flag only adds artifacts: against the same page behaviour
\* the run with debug=true ends as the run without it does, with the same
\* status and, on success, the same adopted prices, count and statistics,
\* whatever happens to the debug files.
C20_DebugChangesNoOutcome ==
  (Done(PlainRun) /\ Done(DebugRun)) =>
    /\ res[DebugRun].status = res[PlainRun].status
    /\ res[PlainRun].status = 200 =>
         /\ res[DebugRun].prices = res[PlainRun].prices
         /\ res[DebugRun].totalPricesFound = res[PlainRun].totalPricesFound
         /\ res[DebugRun].stats = res[PlainRun].stats

====
